---- MODULE Spec2Model ----
(***************************************************************************)
(* AIOPedia (src/aiopedia/aiopedia.py): the page-resolution state machine  *)
(* of WikiPage (__init__ / __load), the lazy accessors of a page and the   *)
(* continued query.                                                        *)
(*                                                                         *)
(* The HTTP session and the JSON decoder are collaborators outside the     *)
(* repository: a request is answered by a parsed mapping chosen by the     *)
(* environment, or by a transport error.                                   *)
(***************************************************************************)
EXTENDS Integers, Sequences, FiniteSets, TLC

\* ------------------------------------------------------------ values

\* An attribute the object does not have (hasattr is False).
NoAttr == "<noattr>"
\* Python's None, and a key a JSON mapping does not have.
None == "<none>"
\* The empty string: falsy, like None and like a missing attribute's default.
Empty == ""

HasAttr(v) == v # NoAttr

\* bool(getattr(self, name, False)) and bool(x) for a str-or-None x.
Truthy(v) == v \notin {NoAttr, None, Empty}

Titles == {"A", "B"}
PageKeys == {"1", "2"}
Locales == {"en", "fr"}

\* The most HTTP requests one page object issues while it resolves.
MaxRequests == 3

\* page['fullurl'] of the page `t` of the wiki `locale`.
Url(locale, t) ==
    IF locale = "en" THEN (IF t = "A" THEN "en/A" ELSE "en/B")
    ELSE (IF t = "A" THEN "fr/A" ELSE "fr/B")

\* ------------------------------------------------------------ errors

NoErr == [kind |-> "none", arg |-> None, cands |-> <<>>]
Err(kind, arg) == [kind |-> kind, arg |-> arg, cands |-> <<>>]

\* ------------------------------------------------------------ API responses

\* query['redirects'][0] and query['normalized'][0]: absent, or from/to.
NoEntry == [present |-> FALSE, from |-> None, to |-> None]
Entries ==
    {NoEntry} \cup {e \in [present : {TRUE}, from : Titles, to : Titles] : e.from # e.to}

\* The key of the page titled `t` in query['pages'].
KeyOf(t) == IF t = "A" THEN "1" ELSE "2"

\* The transport raised instead of answering.
TransportFailure ==
    [err |-> TRUE, missing |-> FALSE, redirects |-> NoEntry, normalized |-> NoEntry,
     pageprops |-> FALSE, key |-> None, title |-> None, fullurl |-> None]

\* The answers to the info|pageprops query sent to the wiki `locale`.
ResolveResponses(locale) ==
    {TransportFailure} \cup
    {[err |-> FALSE, missing |-> m, redirects |-> rd, normalized |-> nm,
      pageprops |-> pp, key |-> KeyOf(t), title |-> t, fullurl |-> Url(locale, t)] :
        m \in BOOLEAN, rd \in Entries, nm \in Entries, pp \in BOOLEAN, t \in Titles}

NullResponse == TransportFailure

\* Strings the code searches in are sequences of characters. s[i:j] of Python
\* (0-based, j exclusive), `sub in s`, and the characters of the class names.
Slice(s, i, j) == SubSeq(s, i + 1, j)
HasSub(s, sub) == \E i \in 0..(Len(s) - Len(sub)) : Slice(s, i, i + Len(sub)) = sub

TocSection == <<"t", "o", "c", "s", "e", "c", "t", "i", "o", "n">>

Chars(name) ==
    IF name = "tocsection-1" THEN TocSection \o <<"-", "1">>
    ELSE IF name = "toclevel-1" THEN <<"t", "o", "c", "l", "e", "v", "e", "l", "-", "1">>
    ELSE IF name = "toc" THEN <<"t", "o", "c">>
    ELSE <<"s", "e", "c", "t", "i", "o", "n">>

RECURSIVE Join(_)
\* ''.join(names)
Join(names) == IF names = <<>> THEN <<>> ELSE Chars(Head(names)) \o Join(Tail(names))

\* li.get('class', []): no class, the classes of an entry of the table of
\* contents, and two classes of an item that is none.
ClassLists == {<<>>, <<"toclevel-1", "tocsection-1">>, <<"toc", "section">>}

\* A <li> of the rendered page: its class names, and the text of its first
\* anchor (None: it has no anchor).
Lis ==
    [class : ClassLists, a : {"A"}] \cup {[class |-> <<>>, a |-> None]}
MaxLis == 2
LiSeqs == UNION {[1..n -> Lis] : n \in 0..MaxLis}

\* The answer to the rvparse query: a transport error, a mapping without the
\* revisions path, or the list items of the HTML.
HtmlFailure == [err |-> TRUE, ok |-> FALSE, lis |-> <<>>]
HtmlMalformed == [err |-> FALSE, ok |-> FALSE, lis |-> <<>>]
HtmlResponses ==
    {HtmlFailure, HtmlMalformed} \cup {[err |-> FALSE, ok |-> TRUE, lis |-> s] : s \in LiSeqs}

NullHtml == HtmlFailure

\* ------------------------------------------------------------ state

VARIABLES
    page,       \* the WikiPage object's attributes
    loop,       \* the __load coroutines handed to the event loop, in order
    inflight,   \* the response the running __load awaits
    requests,   \* the HTTP requests the page object issued, in order
    futures,    \* the results of the finished __load coroutines (futures nobody keeps)
    caller,     \* what the caller of WikiPage(...) / AIOPedia.page(...) got
    call,       \* the arguments of that call
    world,      \* SpecWorld: the wiki, one answer per (locale, title)
    runs,       \* SpecWorld: the page objects built and resolved before this one
    cache,      \* the page's lazily set attributes _html, _content, ...
    calls,      \* the accessor coroutines made on the page, in order of creation
    reads,      \* what the revision_id / parent_id properties returned, in order
    fetches,    \* the accessor requests sent so far, per endpoint
    sec,        \* the call of page.section: the content, the title asked, the result
    qparams,    \* the mapping the application passes to continued_query
    gens        \* the continued_query generators made, in order of creation

resolverVars == <<page, loop, inflight, requests, futures, caller, call, world, runs>>
cacheVars == <<cache, calls, reads, fetches, sec>>
queryVars == <<qparams, gens>>
vars == <<page, loop, inflight, requests, futures, caller, call, world, runs,
          cache, calls, reads, fetches, sec, qparams, gens>>

NoPage ==
    [title |-> NoAttr, original_title |-> NoAttr, page_id |-> NoAttr,
     url |-> NoAttr, endpoint |-> NoAttr]

NoCall ==
    [via |-> "none", title |-> None, page_id |-> None, redirect |-> FALSE,
     preload |-> FALSE, locale |-> None]

Idle == [kind |-> "none", resp |-> NullResponse, doc |-> NullHtml]

Task(redirect, preload) ==
    [redirect |-> redirect, preload |-> preload, pc |-> "start", key |-> None, ptitle |-> None]

\* ------------------------------------------------------------ WikiPage.__init__

\* The constructor run on `self`: the attributes it leaves, the coroutine it
\* hands to the loop and the exception it ends with. With preload the loop over
\* the property names builds the content and summary coroutines (never awaited,
\* so no request) and then reads self.images, which no class defines.
WikiPageInit(self, title, page_id, redirect, preload, original_title, locale) ==
    IF Truthy(title) THEN
        [page |-> [self EXCEPT !.title = title, !.original_title = original_title,
                               !.endpoint = locale],
         tasks |-> <<Task(redirect, preload)>>,
         exc |-> IF preload THEN Err("AttributeError", "images") ELSE NoErr]
    ELSE IF Truthy(page_id) THEN
        [page |-> [self EXCEPT !.page_id = page_id, !.endpoint = locale],
         tasks |-> <<Task(redirect, preload)>>,
         exc |-> IF preload THEN Err("AttributeError", "images") ELSE NoErr]
    ELSE
        [page |-> self, tasks |-> <<>>, exc |-> Err("ValueError", None)]

\* ------------------------------------------------------------ WikiPage.__load

\* The first request of __load: by page id when the object has a truthy one.
ResolveRequest(self) ==
    [kind |-> "resolve", endpoint |-> self.endpoint,
     by |-> IF Truthy(self.page_id) THEN "pageids" ELSE "titles",
     value |-> IF Truthy(self.page_id) THEN self.page_id ELSE self.title]

\* The second request of __load, on a disambiguation page.
HtmlRequest(self) ==
    [kind |-> "html", endpoint |-> self.endpoint,
     by |-> IF HasAttr(self.page_id) THEN "pageids" ELSE "titles",
     value |-> IF HasAttr(self.page_id) THEN self.page_id ELSE self.title]

Raise(self, e) == [page |-> self, tasks |-> <<>>, err |-> e, next |-> "done"]

\* The argument of PageError: the title when the object has one.
PageErrorArg(self) == IF HasAttr(self.title) THEN self.title ELSE self.page_id

\* Mutant of TitleOr: the title of the answer, whatever the object has.
TitleOrAnswered(self, ptitle) == ptitle

\* getattr(self, 'title', page['title']): the argument of RedirectError and
\* the first argument of DisambiguationError.
TitleOr(self, ptitle) == IF HasAttr(self.title) THEN self.title ELSE ptitle

\* The two assertions on the source of the redirect: the normalized entry, when
\* there is one, starts at self.title, and the redirect starts where the
\* normalization ends (at self.title without one).
SourceAsserted(self, r) ==
    LET from_title == IF r.normalized.present THEN r.normalized.to ELSE self.title
    IN  /\ r.normalized.present => r.normalized.from = self.title
        /\ r.redirects.from = from_title

\* The branch of __load taken on a response with a redirects entry.
RedirectBranch(self, redirect, preload, r) ==
    IF redirect THEN
        IF ~HasAttr(self.title) THEN Raise(self, Err("AttributeError", "title"))
        ELSE IF ~SourceAsserted(self, r) THEN Raise(self, Err("AssertionError", None))
        ELSE
            LET i == WikiPageInit(self, r.redirects.to, None, redirect, preload, Empty, "en")
            IN  [page |-> i.page, tasks |-> i.tasks, err |-> i.exc, next |-> "done"]
    ELSE
        Raise(self, Err("RedirectError", TitleOr(self, r.title)))

\* Mutant of LoadBody: on success the title the object had is kept.
LoadBodyKeepsTitle(self, redirect, preload, r) ==
    IF r.err THEN Raise(self, Err("TransportError", None))
    ELSE IF r.missing THEN Raise(self, Err("PageError", PageErrorArg(self)))
    ELSE IF r.redirects.present THEN RedirectBranch(self, redirect, preload, r)
    ELSE IF r.pageprops THEN
        [page |-> self, tasks |-> <<>>, err |-> NoErr, next |-> "html"]
    ELSE
        [page |-> [self EXCEPT !.page_id = r.key,
                               !.title = IF HasAttr(@) THEN @ ELSE r.title,
                               !.url = r.fullurl],
         tasks |-> <<>>, err |-> NoErr, next |-> "done"]

\* Mutant of LoadBody: 'redirects' is looked at before 'missing'.
LoadBodyRedirectFirst(self, redirect, preload, r) ==
    IF r.err THEN Raise(self, Err("TransportError", None))
    ELSE IF r.redirects.present THEN RedirectBranch(self, redirect, preload, r)
    ELSE IF r.missing THEN Raise(self, Err("PageError", PageErrorArg(self)))
    ELSE IF r.pageprops THEN
        [page |-> self, tasks |-> <<>>, err |-> NoErr, next |-> "html"]
    ELSE
        [page |-> [self EXCEPT !.page_id = r.key, !.title = r.title, !.url = r.fullurl],
         tasks |-> <<>>, err |-> NoErr, next |-> "done"]

\* __load from the response `r` on: the attributes, the coroutines scheduled,
\* the exception raised, and whether it goes on to fetch the HTML.
LoadBody(self, redirect, preload, r) ==
    IF r.err THEN Raise(self, Err("TransportError", None))
    ELSE IF r.missing THEN Raise(self, Err("PageError", PageErrorArg(self)))
    ELSE IF r.redirects.present THEN RedirectBranch(self, redirect, preload, r)
    ELSE IF r.pageprops THEN
        [page |-> self, tasks |-> <<>>, err |-> NoErr, next |-> "html"]
    ELSE
        [page |-> [self EXCEPT !.page_id = r.key, !.title = r.title, !.url = r.fullurl],
         tasks |-> <<>>, err |-> NoErr, next |-> "done"]

RECURSIVE MayReferTo(_)
\* [li.a.get_text() for li in lis if 'tocsection' not in class and li.a]
MayReferTo(lis) ==
    IF lis = <<>> THEN <<>>
    ELSE LET li == Head(lis)
         IN  IF ~HasSub(Join(li.class), TocSection) /\ li.a # None
             THEN <<li.a>> \o MayReferTo(Tail(lis))
             ELSE MayReferTo(Tail(lis))

\* __load from the HTML answer on.
DisambiguationBody(self, ptitle, d) ==
    IF d.err THEN Err("TransportError", None)
    ELSE IF ~d.ok THEN Err("KeyError", "revisions")
    ELSE [kind |-> "DisambiguationError",
          arg |-> TitleOr(self, ptitle),
          cands |-> MayReferTo(d.lis)]

\* ------------------------------------------------------------ actions: resolution

\* The loop starts the next __load, which sends its query; `r` is the answer.
SendBody(r) ==
    /\ loop # <<>>
    /\ Head(loop).pc = "start"
    /\ inflight.kind = "none"
    /\ Len(requests) < MaxRequests
    /\ requests' = Append(requests, ResolveRequest(page))
    /\ inflight' = [Idle EXCEPT !.kind = "resolve", !.resp = r]
    /\ loop' = <<[Head(loop) EXCEPT !.pc = "await"]>> \o Tail(loop)
    /\ UNCHANGED <<page, futures, caller, call, runs, cacheVars, queryVars>>

LoadSend(r) == SendBody(r) /\ UNCHANGED world

\* The answer arrives and __load runs to its end, or to its second request,
\* which `d` answers.
LoadRecv(d) ==
    /\ loop # <<>>
    /\ Head(loop).pc = "await"
    /\ inflight.kind = "resolve"
    /\ LET t == Head(loop)
           b == LoadBody(page, t.redirect, t.preload, inflight.resp)
       IN  IF b.next = "html" THEN
               /\ requests' = Append(requests, HtmlRequest(page))
               /\ inflight' = [Idle EXCEPT !.kind = "html", !.doc = d]
               /\ loop' = <<[t EXCEPT !.pc = "awaithtml", !.key = inflight.resp.key,
                                      !.ptitle = inflight.resp.title]>> \o Tail(loop)
               /\ UNCHANGED <<page, futures>>
           ELSE
               /\ page' = b.page
               /\ loop' = Tail(loop) \o b.tasks
               /\ futures' = Append(futures, b.err)
               /\ inflight' = Idle
               /\ UNCHANGED requests
    /\ UNCHANGED <<caller, call, world, runs, cacheVars, queryVars>>

\* The HTML arrives: __load ends with an exception.
LoadRecvHtml ==
    /\ loop # <<>>
    /\ Head(loop).pc = "awaithtml"
    /\ inflight.kind = "html"
    /\ futures' = Append(futures, DisambiguationBody(page, Head(loop).ptitle, inflight.doc))
    /\ loop' = Tail(loop)
    /\ inflight' = Idle
    /\ UNCHANGED <<page, requests, caller, call, world, runs, cacheVars, queryVars>>

\* The application calls WikiPage(title=, page_id=, redirect=, preload=, locale=).
Construct(title, page_id, redirect, preload, locale) ==
    /\ caller.kind = "none"
    /\ LET i == WikiPageInit(NoPage, title, page_id, redirect, preload, Empty, locale)
       IN  /\ page' = i.page
           /\ loop' = loop \o i.tasks
           /\ caller' = IF i.exc = NoErr THEN Err("handle", None) ELSE i.exc
    /\ call' = [via |-> "WikiPage", title |-> title, page_id |-> page_id,
                redirect |-> redirect, preload |-> preload, locale |-> locale]
    /\ UNCHANGED <<inflight, requests, futures, world, runs, cacheVars, queryVars>>

\* ------------------------------------------------------------ AIOPedia

\* The answers to the list=search query: an API-reported error, a transport
\* error, or the hit titles and the suggestion of query.searchinfo (None when
\* the answer has no searchinfo).
SearchResponses ==
    [error : {"none", "timeout", "other", "transport"},
     results : {<<>>, <<"A">>},
     suggestion : {None, "B"}]

\* AIOPedia.search(suggestion=True) on the answer `s`.
Search(title, s) ==
    IF s.error = "transport" THEN [exc |-> Err("TransportError", None), results |-> <<>>,
                                   suggestion |-> None]
    ELSE IF s.error = "timeout" THEN [exc |-> Err("HTTPTimeoutError", title), results |-> <<>>,
                                      suggestion |-> None]
    ELSE IF s.error = "other" THEN [exc |-> Err("WikipediaException", None), results |-> <<>>,
                                    suggestion |-> None]
    ELSE [exc |-> NoErr, results |-> s.results, suggestion |-> s.suggestion]

\* AIOPedia.page up to the WikiPage(...) call: the exception raised before it,
\* or the title / page id handed to the constructor.
PageArgs(title, page_id, auto_suggest, s) ==
    IF Truthy(title) THEN
        IF auto_suggest THEN
            LET f == Search(title, s)
            IN  IF f.exc # NoErr THEN [exc |-> f.exc, title |-> None, page_id |-> None]
                ELSE IF Truthy(f.suggestion) THEN
                    [exc |-> NoErr, title |-> f.suggestion, page_id |-> None]
                ELSE IF f.results = <<>> THEN
                    [exc |-> Err("PageError", title), title |-> None, page_id |-> None]
                ELSE [exc |-> NoErr, title |-> f.results[1], page_id |-> None]
        ELSE [exc |-> NoErr, title |-> title, page_id |-> None]
    ELSE IF Truthy(page_id) THEN [exc |-> NoErr, title |-> None, page_id |-> page_id]
    ELSE [exc |-> Err("ValueError", None), title |-> None, page_id |-> None]

\* The application awaits AIOPedia(title, locale=).page(page_id=, auto_suggest=,
\* redirect=, preload=); `s` answers the search it may make.
ClientPage(title, page_id, auto_suggest, redirect, preload, locale, s) ==
    /\ caller.kind = "none"
    /\ LET a == PageArgs(title, page_id, auto_suggest, s)
           i == WikiPageInit(NoPage, a.title, a.page_id, redirect, preload, Empty, locale)
       IN  IF a.exc # NoErr THEN
               /\ caller' = a.exc
               /\ call' = [via |-> "page", title |-> title, page_id |-> page_id,
                           redirect |-> redirect, preload |-> preload, locale |-> locale]
               /\ UNCHANGED <<page, loop>>
           ELSE
               /\ page' = i.page
               /\ loop' = loop \o i.tasks
               /\ caller' = IF i.exc = NoErr THEN Err("handle", None) ELSE i.exc
               /\ call' = [via |-> "page", title |-> a.title, page_id |-> a.page_id,
                           redirect |-> redirect, preload |-> preload, locale |-> locale]
    /\ UNCHANGED <<inflight, requests, futures, world, runs, cacheVars, queryVars>>

\* ------------------------------------------------------------ a consistent wiki

\* What the wiki `locale` holds under a title: a page, nothing, a
\* disambiguation page, or a redirect to the other title. Unknown: not asked yet.
Unknown == "?"
WorldShapes == {"page", "missing", "disambiguation", "redirect"}

Other(t) == IF t = "A" THEN "B" ELSE "A"

\* The answer of that wiki to the info|pageprops query for the title `t`: with
\* redirects= it names the redirect and describes its target.
WorldResponse(shape, locale, t) ==
    LET u == IF shape = "redirect" THEN Other(t) ELSE t
    IN  [err |-> FALSE, missing |-> shape = "missing",
         redirects |-> IF shape = "redirect" THEN [present |-> TRUE, from |-> t, to |-> u]
                       ELSE NoEntry,
         normalized |-> NoEntry, pageprops |-> shape = "disambiguation",
         key |-> KeyOf(u), title |-> u, fullurl |-> Url(locale, u)]

\* The rendered HTML of every disambiguation page of that wiki.
WorldHtml == [err |-> FALSE, ok |-> TRUE, lis |-> <<[class |-> <<>>, a |-> "A"]>>]

\* The most page objects the application builds one after the other.
MaxPages == 2

\* __load sends its query to the wiki, which answers as it did before.
WorldLoadSend(shape) ==
    LET k == <<page.endpoint, page.title>>
    IN  /\ loop # <<>>
        /\ HasAttr(page.title)
        /\ world[k] \in {Unknown, shape}
        /\ world' = [world EXCEPT ![k] = shape]
        /\ SendBody(WorldResponse(shape, page.endpoint, page.title))

\* The application is done with the resolved (or failed) page object and
\* keeps what became of it.
Archive ==
    /\ loop = <<>>
    /\ futures # <<>>
    /\ Len(runs) < MaxPages
    /\ runs' = Append(runs, [title |-> call.title, locale |-> call.locale,
                             redirect |-> call.redirect, page |-> page,
                             result |-> futures[Len(futures)]])
    /\ page' = NoPage
    /\ caller' = NoErr
    /\ call' = NoCall
    /\ requests' = <<>>
    /\ futures' = <<>>
    /\ UNCHANGED <<loop, inflight, world, cacheVars, queryVars>>

\* ------------------------------------------------------------ Spec: resolution

NoCache ==
    [_html |-> NoAttr, _content |-> NoAttr, _summary |-> NoAttr,
     _revision_id |-> NoAttr, _parent_id |-> NoAttr, _revid |-> NoAttr, _parentid |-> NoAttr]

NoFetches == [html |-> 0, content |-> 0, summary |-> 0]

\* No call of page.section.
NoSection ==
    [pc |-> "none", content |-> <<>>, section_title |-> <<>>,
     ret |-> [found |-> FALSE, text |-> <<>>]]

\* last_continue = {}: no continue token.
NoToken == 0

NoParams == [generator |-> FALSE, titles |-> None, continue |-> NoToken]

\* What the application names a page by: a title, a page id, or neither.
Identities ==
    {[title |-> t, page_id |-> None] : t \in Titles} \cup
    {[title |-> None, page_id |-> k] : k \in PageKeys \cup {None}}

Init ==
    /\ page = NoPage
    /\ loop = <<>>
    /\ inflight = Idle
    /\ requests = <<>>
    /\ futures = <<>>
    /\ caller = NoErr
    /\ call = NoCall
    /\ world = [k \in Locales \X Titles |-> Unknown]
    /\ runs = <<>>
    /\ cache = NoCache
    /\ calls = <<>>
    /\ reads = <<>>
    /\ fetches = NoFetches
    /\ sec = NoSection
    /\ qparams = NoParams
    /\ gens = <<>>

Next ==
    \/ \E id \in Identities, redirect \in BOOLEAN, preload \in BOOLEAN, locale \in Locales :
            Construct(id.title, id.page_id, redirect, preload, locale)
    \/ \E id \in Identities, auto_suggest \in BOOLEAN, redirect \in BOOLEAN,
          preload \in BOOLEAN, locale \in Locales, s \in SearchResponses :
            ClientPage(IF id.title = None THEN Empty ELSE id.title, id.page_id,
                       auto_suggest, redirect, preload, locale, s)
    \/ \E r \in ResolveResponses(page.endpoint) : LoadSend(r)
    \/ \E d \in HtmlResponses : LoadRecv(d)
    \/ LoadRecvHtml

Spec == Init /\ [][Next]_vars

\* Page objects built one after the other, by title, against a wiki that
\* answers the same query the same way.
NextWorld ==
    \/ \E t \in Titles, redirect \in BOOLEAN, locale \in Locales :
            Construct(t, None, redirect, FALSE, locale)
    \/ \E shape \in WorldShapes : WorldLoadSend(shape)
    \/ LoadRecv(WorldHtml)
    \/ LoadRecvHtml
    \/ Archive

SpecWorld == Init /\ [][NextWorld]_vars

\* ------------------------------------------------------------ accessors

\* The texts and revision ids the API returns.
Texts == {Empty, "x", "y"}
RevIds == {"r1", "r2"}
ParentIds == {"p1"}

Accessors == {"html", "content", "summary"}

\* The most accessor coroutines made on the page.
MaxCalls == 2

\* The answers to an accessor's query: a transport error, or the mapping with
\* the text (extract, or revisions[0]['*']) and revisions[0].revid / .parentid,
\* each of which may be missing (None).
AccessorResponses(acc) ==
    {[err |-> TRUE, text |-> None, revid |-> None, parentid |-> None]} \cup
    IF acc = "content"
    THEN [err : {FALSE}, text : Texts \cup {None}, revid : RevIds \cup {None},
          parentid : ParentIds \cup {None}]
    ELSE [err : {FALSE}, text : Texts \cup {None}, revid : {None}, parentid : {None}]

\* The attribute an accessor keeps its value in.
Slot(acc) == IF acc = "html" THEN "_html" ELSE IF acc = "content" THEN "_content" ELSE "_summary"

\* `getattr(self, '_html', False)` and the like, as the `if not` sees it.
Cached(c, acc) == Truthy(c[Slot(acc)])

\* The assignments an accessor makes from the answer `r`, in order, up to the
\* first missing key: the attributes after them and the exception raised.
Store(c, acc, r) ==
    IF r.text = None THEN [cache |-> c, exc |-> Err("KeyError", acc)]
    ELSE
        LET c1 == [c EXCEPT ![Slot(acc)] = r.text]
        IN  IF acc # "content" THEN [cache |-> c1, exc |-> NoErr]
            ELSE IF r.revid = None THEN [cache |-> c1, exc |-> Err("KeyError", "revid")]
            ELSE
                LET c2 == [c1 EXCEPT !._revision_id = r.revid]
                IN  IF r.parentid = None THEN [cache |-> c2, exc |-> Err("KeyError", "parentid")]
                    ELSE [cache |-> [c2 EXCEPT !._parent_id = r.parentid], exc |-> NoErr]

\* An accessor coroutine from its first line to its return or its request.
Begin(c, acc, by) ==
    IF Cached(c, acc)
    THEN [acc |-> acc, by |-> by, pc |-> "done", sent |-> FALSE, ret |-> c[Slot(acc)],
          exc |-> NoErr]
    ELSE [acc |-> acc, by |-> by, pc |-> "wait", sent |-> TRUE, ret |-> None, exc |-> NoErr]

\* The same coroutine from the answer `r` to its return or its exception.
Finish(c, call_, r) ==
    LET st == Store(c, call_.acc, r)
    IN  IF r.err THEN [cache |-> c,
                       call |-> [call_ EXCEPT !.pc = "failed", !.exc = Err("TransportError", None)]]
        ELSE IF st.exc # NoErr THEN
            [cache |-> st.cache, call |-> [call_ EXCEPT !.pc = "failed", !.exc = st.exc]]
        ELSE
            [cache |-> st.cache,
             call |-> [call_ EXCEPT !.pc = "done", !.ret = st.cache[Slot(call_.acc)]]]

Sent(fs, c) == IF c.sent THEN [fs EXCEPT ![c.acc] = @ + 1] ELSE fs

\* The application awaits page.html() / page.content / page.summary.
Access(acc) ==
    /\ Len(calls) < MaxCalls
    /\ LET c == Begin(cache, acc, "user")
       IN  /\ calls' = Append(calls, c)
           /\ fetches' = Sent(fetches, c)
    /\ UNCHANGED <<cache, reads, sec, resolverVars, queryVars>>

\* The answer to the request of the coroutine `i` arrives.
Respond(i, r) ==
    /\ calls[i].pc = "wait"
    /\ calls[i].sent
    /\ LET f == Finish(cache, calls[i], r)
       IN  /\ cache' = f.cache
           /\ calls' = [calls EXCEPT ![i] = f.call]
    /\ UNCHANGED <<reads, fetches, sec, resolverVars, queryVars>>

\* What the property revision_id / parent_id keeps its value in, and the
\* attribute its `if not getattr(...)` looks at.
RevisionSlot(prop) == IF prop = "revision_id" THEN "_revision_id" ELSE "_parent_id"
RevisionGuard(prop) == IF prop = "revision_id" THEN "_revid" ELSE "_parentid"

\* The application reads page.revision_id / page.parent_id: the property hands
\* a content coroutine to the loop, does not wait for it, and returns the
\* attribute (AttributeError when the object has none).
ReadRevision(prop) ==
    /\ Len(calls) < MaxCalls
    /\ calls' = IF ~Truthy(cache[RevisionGuard(prop)])
                THEN Append(calls, [acc |-> "content", by |-> prop, pc |-> "new",
                                    sent |-> FALSE, ret |-> None, exc |-> NoErr])
                ELSE calls
    /\ reads' = Append(reads,
            [prop |-> prop,
             ret |-> IF HasAttr(cache[RevisionSlot(prop)]) THEN cache[RevisionSlot(prop)]
                     ELSE "AttributeError",
             task |-> IF ~Truthy(cache[RevisionGuard(prop)]) THEN Len(calls) + 1 ELSE 0,
             fetched |-> \E i \in DOMAIN calls : calls[i].acc = "content" /\ calls[i].pc = "done"])
    /\ UNCHANGED <<cache, fetches, sec, resolverVars, queryVars>>

\* The loop runs a content coroutine a property handed to it.
StartScheduled(i) ==
    /\ calls[i].pc = "new"
    /\ LET c == Begin(cache, calls[i].acc, calls[i].by)
       IN  /\ calls' = [calls EXCEPT ![i] = c]
           /\ fetches' = Sent(fetches, c)
    /\ UNCHANGED <<cache, reads, sec, resolverVars, queryVars>>

\* A page that resolved: the state the accessors and the continued query
\* are called in.
ResolvedPage ==
    [title |-> "A", original_title |-> Empty, page_id |-> "1", url |-> "en/A",
     endpoint |-> "en"]

InitResolved ==
    /\ page = ResolvedPage
    /\ loop = <<>>
    /\ inflight = Idle
    /\ requests = <<[kind |-> "resolve", endpoint |-> "en", by |-> "titles", value |-> "A"]>>
    /\ futures = <<NoErr>>
    /\ caller = Err("handle", None)
    /\ call = [via |-> "WikiPage", title |-> "A", page_id |-> None, redirect |-> TRUE,
               preload |-> FALSE, locale |-> "en"]
    /\ world = [k \in Locales \X Titles |-> Unknown]
    /\ runs = <<>>
    /\ cache = NoCache
    /\ calls = <<>>
    /\ reads = <<>>
    /\ fetches = NoFetches
    /\ sec = NoSection
    /\ qparams = NoParams
    /\ gens = <<>>

NextCache ==
    \/ \E acc \in Accessors : Access(acc)
    \/ \E i \in DOMAIN calls : \E r \in AccessorResponses(calls[i].acc) : Respond(i, r)
    \/ \E prop \in {"revision_id", "parent_id"} : ReadRevision(prop)
    \/ \E i \in DOMAIN calls : StartScheduled(i)

SpecCache == InitResolved /\ [][NextCache]_vars

\* ------------------------------------------------------------ claims: accessors

\* C3: a revision_id / parent_id read made after content was fetched sends no
\* request of its own or through the coroutine it schedules, and returns the
\* id the content answer carried: the content endpoint is asked once.
C3_RevisionFromCache ==
    \A k \in DOMAIN reads :
        reads[k].fetched =>
            /\ reads[k].ret = cache[RevisionSlot(reads[k].prop)]
            /\ reads[k].task # 0 => ~calls[reads[k].task].sent

\* The step is a call of the accessor `acc` by the application.
Calls(acc) ==
    /\ Len(calls') = Len(calls) + 1
    /\ calls'[Len(calls')].acc = acc
    /\ calls'[Len(calls')].by = "user"

\* A call of `acc` returned a value and none is under way.
Completed(acc) ==
    /\ \E i \in DOMAIN calls : calls[i].acc = acc /\ calls[i].pc = "done"
    /\ \A i \in DOMAIN calls : calls[i].acc = acc => calls[i].pc \in {"done", "failed"}

\* C4: a call of an accessor made after a call of it returned a value sends no
\* request and returns the stored value, whatever that value is; a call on an
\* empty slot sends exactly one request.
C4_CachedAfterFirst ==
    [][\A acc \in Accessors :
          Calls(acc) =>
              /\ Completed(acc) =>
                    /\ fetches' = fetches
                    /\ calls'[Len(calls')].pc = "done"
                    /\ calls'[Len(calls')].ret = cache[Slot(acc)]
              /\ ~HasAttr(cache[Slot(acc)]) =>
                    fetches' = [fetches EXCEPT ![acc] = @ + 1]]_vars

CacheSlots == {"_html", "_content", "_summary", "_revision_id", "_parent_id"}

\* C5: a cache slot that holds a value keeps that value.
C5_WriteOnce ==
    [][\A s \in CacheSlots : HasAttr(cache[s]) => cache'[s] = cache[s]]_vars

\* ------------------------------------------------------------ continued_query

\* The k-th answer to a generator has no items or two, and no continue token
\* or the k-th one.
ItemsOf(k) == <<10 * k + 1, 10 * k + 2>>
ItemSeqs(k) == {<<>>, ItemsOf(k)}
Conts(k) == {NoToken, k}

\* The most generators made, and the most requests they send between them.
MaxGens == 2
MaxSends == 3

\* The k-th answer to a request of the continued query: a transport error, a
\* mapping without 'query' (with or without 'continue'), or one with the pages.
\* `prop`: the bound page has the property list asked for (all a generator
\* query reads are the pages themselves).
QueryResponses(generator, k) ==
    {[err |-> TRUE, query |-> FALSE, items |-> <<>>, cont |-> NoToken, prop |-> FALSE]} \cup
    {[err |-> FALSE, query |-> FALSE, items |-> <<>>, cont |-> c, prop |-> FALSE] :
        c \in Conts(k)}
    \cup
    [err : {FALSE}, query : {TRUE}, items : ItemSeqs(k), cont : Conts(k),
     prop : IF generator THEN {TRUE} ELSE BOOLEAN]

\* A generator object before its first __anext__.
NewGen ==
    [pc |-> "created", last_continue |-> NoToken, cont |-> NoToken, items |-> <<>>, pos |-> 0,
     yielded |-> <<>>, sent |-> <<>>, got |-> <<>>, asked |-> 0, before |-> 0]

\* Mutant of Params: no copy, the update lands in the caller's mapping.
ParamsAliased(q, last_continue) ==
    LET token == IF last_continue # NoToken THEN last_continue ELSE q.continue
    IN  [token |-> token, mapping |-> [q EXCEPT !.continue = token]]

\* params = query_params.copy(); params.update(last_continue): the continue
\* token the request carries, and the caller's mapping after it.
Params(q, last_continue) ==
    [token |-> IF last_continue # NoToken THEN last_continue ELSE q.continue, mapping |-> q]

\* The top of the while loop: the next request is sent and awaited.
SendNext(g, q) ==
    LET p == Params(q, g.last_continue)
    IN  [gen |-> [g EXCEPT !.pc = "await", !.sent = Append(@, p.token)], mapping |-> p.mapping]

\* The code before the loop, run by the first __anext__.
Start(g, q, self) ==
    SendNext([g EXCEPT !.last_continue = NoToken], [q EXCEPT !.titles = self.title])

\* After the for loop: stop without a continue token, else go round.
AfterItems(g, q) ==
    IF g.cont = NoToken THEN [gen |-> [g EXCEPT !.pc = "done"], mapping |-> q]
    ELSE SendNext([g EXCEPT !.last_continue = g.cont], q)

\* The for loop: the next item of the response is yielded, if any is left.
Resume(g, q) ==
    IF g.pos < Len(g.items)
    THEN [gen |-> [g EXCEPT !.pc = "yielded", !.pos = @ + 1,
                            !.yielded = Append(@, g.items[g.pos + 1])],
          mapping |-> q]
    ELSE AfterItems(g, q)

\* Mutant of OnResponse: the items are collected until a response has no
\* continue token, and yielded only then.
OnResponseBuffered(g, q, r) ==
    LET g0 == [g EXCEPT !.got = Append(@, r)]
    IN  IF r.err \/ (r.query /\ ~q.generator /\ ~r.prop)
        THEN [gen |-> [g0 EXCEPT !.pc = "failed"], mapping |-> q]
        ELSE IF ~r.query THEN [gen |-> [g0 EXCEPT !.pc = "done"], mapping |-> q]
        ELSE IF r.cont # NoToken
        THEN SendNext([g0 EXCEPT !.items = @ \o r.items, !.last_continue = r.cont], q)
        ELSE Resume([g0 EXCEPT !.items = @ \o r.items, !.cont = NoToken], q)

\* The generator from the answer `r` to its next yield, request or end.
OnResponse(g, q, r) ==
    LET g0 == [g EXCEPT !.got = Append(@, r)]
    IN  IF r.err THEN [gen |-> [g0 EXCEPT !.pc = "failed"], mapping |-> q]
        ELSE IF ~r.query THEN [gen |-> [g0 EXCEPT !.pc = "done"], mapping |-> q]
        ELSE IF ~q.generator /\ ~r.prop THEN [gen |-> [g0 EXCEPT !.pc = "failed"], mapping |-> q]
        ELSE Resume([g0 EXCEPT !.items = r.items, !.pos = 0, !.cont = r.cont], q)

RECURSIVE TotalSent(_)
TotalSent(gs) == IF gs = <<>> THEN 0 ELSE Len(Head(gs).sent) + TotalSent(Tail(gs))

\* The application calls page.continued_query(qparams).
NewQuery ==
    /\ Len(gens) < MaxGens
    /\ gens' = Append(gens, NewGen)
    /\ UNCHANGED <<qparams, resolverVars, cacheVars>>

\* The consumer of the generator `i` asks for the next item.
Anext(i) ==
    /\ gens[i].pc \in {"created", "yielded"}
    /\ LET g == [gens[i] EXCEPT !.asked = @ + 1,
                                !.before = IF gens[i].pc = "created" THEN TotalSent(gens) ELSE @]
           n == IF g.pc = "created" THEN Start(g, qparams, page) ELSE Resume(g, qparams)
       IN  /\ gens' = [gens EXCEPT ![i] = n.gen]
           /\ qparams' = n.mapping
    /\ TotalSent(gens') <= MaxSends
    /\ UNCHANGED <<resolverVars, cacheVars>>

\* The answer to the request of the generator `i` arrives.
QueryRecv(i, r) ==
    /\ gens[i].pc = "await"
    /\ LET n == OnResponse(gens[i], qparams, r)
       IN  /\ gens' = [gens EXCEPT ![i] = n.gen]
           /\ qparams' = n.mapping
    /\ TotalSent(gens') <= MaxSends
    /\ UNCHANGED <<resolverVars, cacheVars>>

InitQuery ==
    /\ page = ResolvedPage
    /\ loop = <<>>
    /\ inflight = Idle
    /\ requests = <<[kind |-> "resolve", endpoint |-> "en", by |-> "titles", value |-> "A"]>>
    /\ futures = <<NoErr>>
    /\ caller = Err("handle", None)
    /\ call = [via |-> "WikiPage", title |-> "A", page_id |-> None, redirect |-> TRUE,
               preload |-> FALSE, locale |-> "en"]
    /\ world = [k \in Locales \X Titles |-> Unknown]
    /\ runs = <<>>
    /\ cache = NoCache
    /\ calls = <<>>
    /\ reads = <<>>
    /\ fetches = NoFetches
    /\ sec = NoSection
    /\ qparams \in {[NoParams EXCEPT !.generator = g] : g \in BOOLEAN}
    /\ gens = <<>>

NextQuery ==
    \/ NewQuery
    \/ \E i \in DOMAIN gens : Anext(i)
    \/ \E i \in DOMAIN gens :
          \E r \in QueryResponses(qparams.generator, Len(gens[i].got) + 1) : QueryRecv(i, r)

SpecQuery == InitQuery /\ [][NextQuery]_vars

\* ------------------------------------------------------------ claims: continued query

RECURSIVE AllItems(_)
\* The items of the responses `rs`, in arrival order.
AllItems(rs) == IF rs = <<>> THEN <<>> ELSE Head(rs).items \o AllItems(Tail(rs))

\* Request k+1 carries the token of response k, the first request none, and
\* there is one request per response.
Chained(g) ==
    /\ Len(g.sent) = Len(g.got)
    /\ g.sent # <<>> => g.sent[1] = NoToken
    /\ \A k \in 1..(Len(g.got) - 1) : g.sent[k + 1] = g.got[k].cont

\* C6: a continued query ends only after a response without a continue token,
\* every earlier response having carried one; it has then yielded the items of
\* all the responses in arrival order, with one request per response, each
\* request carrying the token of the response before.
C6_AllItemsInOrder ==
    \A i \in DOMAIN gens :
        gens[i].pc = "done" =>
            LET g == gens[i]
                n == Len(g.got)
            IN  /\ n >= 1
                /\ g.got[n].cont = NoToken
                /\ \A k \in 1..(n - 1) : g.got[k].cont # NoToken
                /\ g.yielded = AllItems(g.got)
                /\ Chained(g)

\* C7: a request is sent only when the consumer has asked for more than the
\* responses before it held: with n requests sent, the consumer has asked at
\* least once more than the first n-1 responses have items.
C7_Incremental ==
    \A i \in DOMAIN gens :
        LET g == gens[i]
            n == Len(g.sent)
        IN  n >= 1 => g.asked >= 1 + Len(AllItems(SubSeq(g.got, 1, n - 1)))

C7_Witness ==
    \E i \in DOMAIN gens :
        /\ Len(gens[i].sent) = 2
        /\ Len(gens[i].got[1].items) = 2
        /\ gens[i].asked = 3

\* C8: the first request of every invocation carries no continue token.
C8_FreshContinuation ==
    \A i \in DOMAIN gens : gens[i].sent # <<>> => gens[i].sent[1] = NoToken

\* A second invocation sent its first request after the first one, given the
\* same mapping and still suspended, had sent a request with a token.
C8_Witness ==
    /\ Len(gens) = 2
    /\ gens[1].pc \in {"yielded", "await"}
    /\ Len(gens[1].sent) = 2
    /\ gens[1].sent[2] # NoToken
    /\ gens[2].sent # <<>>
    /\ gens[2].before = 2

\* ------------------------------------------------------------ claims: resolution

\* The running __load holds the answer to its info|pageprops query.
Answered == inflight.kind = "resolve"

\* That answer has a redirects entry and the page was asked for by title.
RedirectAnswered ==
    /\ Answered
    /\ inflight.resp.redirects.present
    /\ HasAttr(page.title)

\* __load ends at this step with the exception `e`, having sent nothing more
\* and scheduled nothing.
FailsWith(e) ==
    /\ futures' = Append(futures, e)
    /\ requests' = requests
    /\ loop' = <<>>
    /\ inflight' = Idle

\* C1 as stated: with redirect=False, every answer with a redirects entry makes
\* __load fail with RedirectError(original title) after its one request.
C1_Original ==
    [][RedirectAnswered /\ ~Head(loop).redirect =>
          FailsWith(Err("RedirectError", call.title)) /\ Len(requests) = 1]_vars

\* C1, amended: with redirect=False, every answer with a redirects entry that
\* does not mark the page missing makes __load fail with RedirectError(original
\* title), and the one request sent is the only one of that call.
C1_RedirectNotFollowed ==
    [][RedirectAnswered /\ ~Head(loop).redirect /\ ~inflight.resp.missing =>
          FailsWith(Err("RedirectError", call.title)) /\ Len(requests) = 1]_vars

C1_Witness ==
    /\ call.title \in Titles
    /\ ~call.redirect
    /\ futures = <<Err("RedirectError", call.title)>>
    /\ Len(requests) = 1
    /\ loop = <<>>

\* What became of an archived page object: the identity it resolved to, or the
\* kind of its failure (with the candidates of a disambiguation).
Outcome(run) ==
    IF run.result.kind = "none" THEN
        [kind |-> "Resolved", title |-> run.page.title, page_id |-> run.page.page_id,
         url |-> run.page.url, cands |-> <<>>]
    ELSE
        [kind |-> run.result.kind, title |-> None, page_id |-> None, url |-> None,
         cands |-> run.result.cands]

\* C2: if the wiki answers the title A with a redirect to B, a page built for
\* A with redirect=True ends as a page built for B with redirect=True on the
\* same wiki does.
C2_RedirectChase ==
    \A i \in DOMAIN runs, j \in DOMAIN runs :
        ( /\ runs[i].redirect /\ runs[j].redirect
          /\ runs[i].locale = runs[j].locale
          /\ world[<<runs[i].locale, runs[i].title>>] = "redirect"
          /\ runs[j].title = Other(runs[i].title) )
        => Outcome(runs[i]) = Outcome(runs[j])

\* The source of the redirect in the answer is not the title asked for (the
\* normalized title when the answer has a normalized entry).
SourceDiffers ==
    inflight.resp.redirects.from #
        (IF inflight.resp.normalized.present THEN inflight.resp.normalized.to ELSE page.title)

\* C9: whenever the answer (one that does not mark the page missing, which is
\* tested first) has a redirects entry from another source, __load fails with
\* the assertion error, whatever the redirect flag, and sends no request for
\* the target.
C9_SourceCheckedFirst ==
    [][RedirectAnswered /\ SourceDiffers /\ ~inflight.resp.missing =>
          FailsWith(Err("AssertionError", None))]_vars

ResolutionFailures == {"PageError", "RedirectError", "AssertionError", "DisambiguationError"}

\* C10: when the resolution of a page fails, the caller of the constructor or
\* of AIOPedia.page got that error, not a page handle.
C10_FailureSurfaced ==
    \A i \in DOMAIN futures :
        futures[i].kind \in ResolutionFailures => caller.kind = futures[i].kind

\* ------------------------------------------------------------ claims: identity

\* The last __load of the page has ended, with an exception / without one.
ResolutionFailed == loop = <<>> /\ futures # <<>> /\ futures[Len(futures)] # NoErr
ResolutionDone == loop = <<>> /\ futures # <<>> /\ futures[Len(futures)] = NoErr

\* C11: after a failed resolution the page the caller holds has the title, page
\* id and url the constructor left it with: none was set since, and the title
\* was not replaced by the target of a redirect.
C11_NoPartialIdentity ==
    (caller.kind = "handle" /\ ResolutionFailed) =>
        LET i == WikiPageInit(NoPage, call.title, call.page_id, call.redirect, call.preload,
                              Empty, call.locale).page
        IN  /\ page.title = i.title
            /\ page.page_id = i.page_id
            /\ page.url = i.url

\* C12: the step that ends a resolution without an exception ends on an answer
\* and leaves title, page_id and url set to that answer's title, page-id key
\* and fullurl; a resolved page has all three.
C12_CanonicalIdentity ==
    [][/\ (ResolutionDone' /\ ~ResolutionDone) =>
              /\ Answered
              /\ page'.title = inflight.resp.title
              /\ page'.page_id = inflight.resp.key
              /\ page'.url = inflight.resp.fullurl
       /\ ResolutionDone' =>
              HasAttr(page'.title) /\ HasAttr(page'.page_id) /\ HasAttr(page'.url)]_vars

\* A page asked for by title resolved after a redirect was followed.
C12_Witness ==
    /\ ResolutionDone
    /\ call.title \in Titles
    /\ Len(requests) = 2
    /\ page.title = "B"
    /\ page.page_id = "2"
    /\ requests[2].value # requests[1].value

\* ------------------------------------------------------------ claims: priority

ResolveOutcomes == {"missing", "redirect", "disambiguation", "resolved"}

\* What the step made of the answer: PageError, the redirect branch (followed,
\* or ended by RedirectError or by a failed check of the redirect), the request
\* for the rendered HTML, or the page resolved.
Took(o) ==
    IF o = "missing" THEN
        /\ Len(futures') = Len(futures) + 1
        /\ futures'[Len(futures')].kind = "PageError"
    ELSE IF o = "redirect" THEN
        /\ Len(futures') = Len(futures) + 1
        /\ \/ futures'[Len(futures')].kind \in {"RedirectError", "AssertionError"}
           \/ futures'[Len(futures')] = Err("AttributeError", "title")
           \/ loop' # <<>> /\ page'.title = inflight.resp.redirects.to
    ELSE IF o = "disambiguation" THEN
        /\ inflight'.kind = "html"
        /\ futures' = futures
    ELSE
        ResolutionDone'

\* The outcome the priority order selects for the answer `r`.
Selected(r) ==
    IF r.missing THEN "missing"
    ELSE IF r.redirects.present THEN "redirect"
    ELSE IF r.pageprops THEN "disambiguation"
    ELSE "resolved"

\* C17: the step that handles an answer takes the outcome the priority order
\* missing, redirect, disambiguation, resolved selects, and no other.
C17_PriorityOrder ==
    [][(Answered /\ ~inflight.resp.err) =>
          \A o \in ResolveOutcomes : Took(o) <=> o = Selected(inflight.resp)]_vars

\* An answer that marks the page missing and also has a redirects entry and
\* pageprops is in, for the step that handles it.
C17_Witness ==
    /\ Answered
    /\ loop # <<>>
    /\ ~inflight.resp.err
    /\ inflight.resp.missing
    /\ inflight.resp.redirects.present
    /\ inflight.resp.pageprops

\* ------------------------------------------------------------ claims: accessor failures

\* The step is the failure of the accessor coroutine `i`.
Fails(i) == calls[i].pc = "wait" /\ calls'[i].pc = "failed"

\* C13: when the fetch of an accessor fails, every cache slot other than that
\* accessor's own keeps the value it had.
C13_FailureLocal ==
    [][\A i \in DOMAIN calls :
          Fails(i) => \A s \in CacheSlots \ {Slot(calls[i].acc)} : cache'[s] = cache[s]]_vars

\* C14: a read of revision_id / parent_id made before any content call returned
\* hands a content coroutine to the loop and returns a revision id (a parent
\* id), never the lack of one.
C14_RevisionAwaited ==
    \A k \in DOMAIN reads :
        ~reads[k].fetched =>
            /\ reads[k].task # 0
            /\ reads[k].ret \in (IF reads[k].prop = "revision_id" THEN RevIds ELSE ParentIds)

\* C20: _content, _revision_id and _parent_id are all set or all unset.
C20_SetTogether ==
    \/ HasAttr(cache._content) /\ HasAttr(cache._revision_id) /\ HasAttr(cache._parent_id)
    \/ ~HasAttr(cache._content) /\ ~HasAttr(cache._revision_id) /\ ~HasAttr(cache._parent_id)

\* ------------------------------------------------------------ claims: disambiguation

\* One of the item's class names tags it as an entry of the table of contents.
TocEntry(li) == \E i \in DOMAIN li.class : HasSub(Chars(li.class[i]), TocSection)

Candidate(li) == ~TocEntry(li) /\ li.a # None

\* The anchor texts of the candidates among `lis`, in document order.
Candidates(lis) ==
    LET kept == SelectSeq(lis, Candidate)
    IN  [i \in DOMAIN kept |-> kept[i].a]

\* The running __load holds the rendered HTML of a disambiguation page.
HtmlAnswered == inflight.kind = "html" /\ ~inflight.doc.err /\ inflight.doc.ok

\* C16: on a disambiguation page __load has sent one request for the rendered
\* HTML and, when it is in, fails with DisambiguationError(title, candidates):
\* the title the page was asked by (the answer's title for a page asked by id)
\* and, in document order, the anchor text of the list items that are not
\* entries of the table of contents and have an anchor.
C16_Candidates ==
    [][HtmlAnswered =>
          /\ FailsWith([kind |-> "DisambiguationError",
                        arg |-> IF HasAttr(page.title) THEN page.title ELSE Head(loop).ptitle,
                        cands |-> Candidates(inflight.doc.lis)])
          /\ Cardinality({i \in DOMAIN requests : requests[i].kind = "html"}) = 1]_vars

\* ------------------------------------------------------------ WikiPage.section

Whitespace == {" ", "\n", "\t"}

RECURSIVE Index(_, _, _)
\* s.index(sub, start): the lowest i >= start with s[i:i+len(sub)] == sub;
\* -1 stands for ValueError.
Index(s, sub, start) ==
    IF start + Len(sub) > Len(s) THEN -1
    ELSE IF Slice(s, start, start + Len(sub)) = sub THEN start
    ELSE Index(s, sub, start + 1)

RECURSIVE LStrip(_, _)
\* s.lstrip(chars)
LStrip(s, chars) == IF s # <<>> /\ Head(s) \in chars THEN LStrip(Tail(s), chars) ELSE s

RECURSIVE RStrip(_, _)
RStrip(s, chars) ==
    IF s # <<>> /\ s[Len(s)] \in chars THEN RStrip(SubSeq(s, 1, Len(s) - 1), chars) ELSE s

\* s.strip()
Strip(s) == RStrip(LStrip(s, Whitespace), Whitespace)

\* u"== {} ==".format(section_title)
Heading(section_title) == <<"=", "=", " ">> \o section_title \o <<" ", "=", "=">>

\* Mutant of Section: the result is not stripped of whitespace.
SectionUnstripped(content, section_title) ==
    LET section == Heading(section_title)
        found == Index(content, section, 0)
        index == found + Len(section)
        nxt == Index(content, <<"=", "=">>, index)
        next_index == IF nxt = -1 THEN Len(content) ELSE nxt
    IN  IF found = -1 THEN [found |-> FALSE, text |-> <<>>]
        ELSE [found |-> TRUE, text |-> LStrip(Slice(content, index, next_index), {"="})]

\* page.section(section_title) where every `await self.content` gives
\* `content`: None (found FALSE) or the text returned.
Section(content, section_title) ==
    LET section == Heading(section_title)
        found == Index(content, section, 0)
        index == found + Len(section)
        nxt == Index(content, <<"=", "=">>, index)
        next_index == IF nxt = -1 THEN Len(content) ELSE nxt
    IN  IF found = -1 THEN [found |-> FALSE, text |-> <<>>]
        ELSE [found |-> TRUE,
              text |-> Strip(LStrip(Slice(content, index, next_index), {"="}))]

\* The contents section is called on: a start, the heading of the section "h"
\* or a broken one, and a tail of up to MaxTail characters.
MaxTail == 3
Tails == UNION {[1..n -> {"=", " ", "x"}] : n \in 0..MaxTail}
Starts == {<<>>, <<"=">>, <<"x", " ">>, Heading(<<"h">>) \o <<" ", "y", " ">>}
Middles == {Heading(<<"h">>), <<"=", "=", " ", "h">>}

\* "intro == History == body text == Legacy == more" and "History".
ExampleContent ==
    <<"i", "n", "t", "r", "o", " ", "=", "=", " ", "H",
      "i", "s", "t", "o", "r", "y", " ", "=", "=", " ",
      "b", "o", "d", "y", " ", "t", "e", "x", "t", " ",
      "=", "=", " ", "L", "e", "g", "a", "c", "y", " ",
      "=", "=", " ", "m", "o", "r", "e">>
ExampleTitle == <<"H", "i", "s", "t", "o", "r", "y">>

SectionInputs ==
    {[content |-> a \o m \o z, section_title |-> <<"h">>] :
        a \in Starts, m \in Middles, z \in Tails}
    \cup {[content |-> ExampleContent, section_title |-> t] : t \in {ExampleTitle, <<"h">>}}

\* The application awaits page.section(section_title).
SectionCall ==
    /\ sec.pc = "called"
    /\ sec' = [sec EXCEPT !.pc = "done", !.ret = Section(sec.content, sec.section_title)]
    /\ UNCHANGED <<cache, calls, reads, fetches, resolverVars, queryVars>>

InitSection ==
    /\ page = ResolvedPage
    /\ loop = <<>>
    /\ inflight = Idle
    /\ requests = <<[kind |-> "resolve", endpoint |-> "en", by |-> "titles", value |-> "A"]>>
    /\ futures = <<NoErr>>
    /\ caller = Err("handle", None)
    /\ call = [via |-> "WikiPage", title |-> "A", page_id |-> None, redirect |-> TRUE,
               preload |-> FALSE, locale |-> "en"]
    /\ world = [k \in Locales \X Titles |-> Unknown]
    /\ runs = <<>>
    /\ cache = NoCache
    /\ calls = <<>>
    /\ reads = <<>>
    /\ fetches = NoFetches
    /\ \E i \in SectionInputs :
          sec = [NoSection EXCEPT !.pc = "called", !.content = i.content,
                                  !.section_title = i.section_title]
    /\ qparams = NoParams
    /\ gens = <<>>

NextSection == SectionCall

SpecSection == InitSection /\ [][NextSection]_vars

\* ------------------------------------------------------------ claims: section

\* `sub` occurs in `s` at the (0-based) position i.
Occurs(s, sub, i) == i + Len(sub) <= Len(s) /\ Slice(s, i, i + Len(sub)) = sub

Least(S) == CHOOSE n \in S : \A m \in S : n <= m

\* The text between the end of the first occurrence of the heading and the
\* next "==" after it (the end of the content when there is none).
Between(content, section_title) ==
    LET h == Heading(section_title)
        from == Least({i \in 0..Len(content) : Occurs(content, h, i)}) + Len(h)
        to == Least({j \in from..Len(content) : Occurs(content, <<"=", "=">>, j)}
                    \cup {Len(content)})
    IN  Slice(content, from, to)

\* `t` without the whitespace at its two ends: the part of t that neither
\* starts nor ends with whitespace and has only whitespace around it.
Trimmed(t) ==
    CHOOSE r \in {Slice(t, a, b) : a \in 0..Len(t), b \in 0..Len(t)} :
        /\ r = <<>> \/ (r[1] \notin Whitespace /\ r[Len(r)] \notin Whitespace)
        /\ \E a \in 0..Len(t) :
              /\ a + Len(r) <= Len(t)
              /\ Slice(t, a, a + Len(r)) = r
              /\ \A k \in 1..Len(t) : (k <= a \/ k > a + Len(r)) => t[k] \in Whitespace

\* `t` without the "=" characters it starts with.
Unsigned(t) ==
    CHOOSE r \in {Slice(t, a, Len(t)) : a \in 0..Len(t)} :
        /\ r = <<>> \/ r[1] # "="
        /\ \A k \in 1..(Len(t) - Len(r)) : t[k] = "="

HasHeading(content, section_title) ==
    \E i \in 0..Len(content) : Occurs(content, Heading(section_title), i)

\* C15 as stated: not found without the heading, else the whitespace-trimmed
\* text between the heading and the next "==".
C15_Original ==
    sec.pc = "done" =>
        IF ~HasHeading(sec.content, sec.section_title) THEN ~sec.ret.found
        ELSE /\ sec.ret.found
             /\ sec.ret.text = Trimmed(Between(sec.content, sec.section_title))

\* C15, amended: not found without the heading, else the text between the
\* heading and the next "==", without the "=" characters it starts with, then
\* whitespace-trimmed.
C15_SectionText ==
    sec.pc = "done" =>
        IF ~HasHeading(sec.content, sec.section_title) THEN ~sec.ret.found
        ELSE /\ sec.ret.found
             /\ sec.ret.text = Trimmed(Unsigned(Between(sec.content, sec.section_title)))

\* section("History") on the example content returned "body text".
C15_Witness ==
    /\ sec.pc = "done"
    /\ sec.content = ExampleContent
    /\ sec.section_title = ExampleTitle
    /\ sec.ret = [found |-> TRUE, text |-> <<"b", "o", "d", "y", " ", "t", "e", "x", "t">>]

\* ------------------------------------------------------------ redirect chains

\* The most requests one page object sends along a chain of redirects.
MaxChase == 22

\* __load sends its query to the wiki, which answers as it did before, however
\* many requests the page has sent already (up to MaxChase).
ChaseSend(shape) ==
    LET k == <<page.endpoint, page.title>>
    IN  /\ loop # <<>>
        /\ Head(loop).pc = "start"
        /\ inflight.kind = "none"
        /\ HasAttr(page.title)
        /\ Len(requests) < MaxChase
        /\ world[k] \in {Unknown, shape}
        /\ world' = [world EXCEPT ![k] = shape]
        /\ requests' = Append(requests, ResolveRequest(page))
        /\ inflight' = [Idle EXCEPT !.kind = "resolve",
                                    !.resp = WorldResponse(shape, page.endpoint, page.title)]
        /\ loop' = <<[Head(loop) EXCEPT !.pc = "await"]>> \o Tail(loop)
        /\ UNCHANGED <<page, futures, caller, call, runs, cacheVars, queryVars>>

\* One page object, built by title, against a wiki that answers the same query
\* the same way.
NextChase ==
    \/ \E t \in Titles, redirect \in BOOLEAN, locale \in Locales :
            Construct(t, None, redirect, FALSE, locale)
    \/ \E shape \in WorldShapes : ChaseSend(shape)
    \/ LoadRecv(WorldHtml)
    \/ LoadRecvHtml

SpecChase == Init /\ [][NextChase]_vars

\* C18: a resolution ends after a bounded number of hops: with the cap of 20
\* followed redirects the specification proposes, a page object sends at most
\* 21 info|pageprops queries (a longer chain ending in TooManyRedirects).
C18_BoundedChase == Len(requests) <= 21

\* ------------------------------------------------------------ accessors on any page

\* An accessor coroutine on the page `self`, resolved or not, from its first
\* line to its return, its request, or the AttributeError of html's
\* 'titles': self.title on a page that has no title.
BeginOn(self, c, acc, by) ==
    IF ~Cached(c, acc) /\ acc = "html" /\ ~HasAttr(self.title)
    THEN [acc |-> acc, by |-> by, pc |-> "failed", sent |-> FALSE, ret |-> None,
          exc |-> Err("AttributeError", "title")]
    ELSE Begin(c, acc, by)

\* The same coroutine from the answer `r` on: request['query']['pages']
\* [self.page_id] raises AttributeError on a page that has no page_id.
FinishOn(self, c, call_, r) ==
    IF ~r.err /\ ~HasAttr(self.page_id)
    THEN [cache |-> c,
          call |-> [call_ EXCEPT !.pc = "failed", !.exc = Err("AttributeError", "page_id")]]
    ELSE Finish(c, call_, r)

\* The application, holding the page the constructor returned, awaits
\* page.html() / page.content / page.summary.
AccessOn(acc) ==
    /\ caller.kind = "handle"
    /\ Len(calls) < MaxCalls
    /\ LET c == BeginOn(page, cache, acc, "user")
       IN  /\ calls' = Append(calls, c)
           /\ fetches' = Sent(fetches, c)
    /\ UNCHANGED <<cache, reads, sec, resolverVars, queryVars>>

\* The answer to the request of the coroutine `i` arrives.
RespondOn(i, r) ==
    /\ calls[i].pc = "wait"
    /\ calls[i].sent
    /\ LET f == FinishOn(page, cache, calls[i], r)
       IN  /\ cache' = f.cache
           /\ calls' = [calls EXCEPT ![i] = f.call]
    /\ UNCHANGED <<reads, fetches, sec, resolverVars, queryVars>>

\* The answers an accessor gets in SpecEarly: a transport error, or the text
\* "x" with the revision ids of a content answer.
EarlyResponses(acc) ==
    {r \in AccessorResponses(acc) :
        r.err \/ (r.text = "x" /\ (acc = "content" => r.revid = "r1" /\ r.parentid = "p1"))}

\* A page object from its construction on, against a wiki that answers by one
\* of its shapes, with the accessor calls the application may make on the page
\* at any time.
NextEarly ==
    \/ \E id \in Identities, redirect \in BOOLEAN, preload \in BOOLEAN, locale \in Locales :
            Construct(id.title, id.page_id, redirect, preload, locale)
    \/ \E shape \in WorldShapes, t \in Titles :
            LoadSend(WorldResponse(shape, page.endpoint, t))
    \/ LoadRecv(WorldHtml)
    \/ LoadRecvHtml
    \/ \E acc \in Accessors : AccessOn(acc)
    \/ \E i \in DOMAIN calls : \E r \in EarlyResponses(calls[i].acc) : RespondOn(i, r)

SpecEarly == Init /\ [][NextEarly]_vars

\* C19: a request of an accessor is sent only on a page whose resolution has
\* ended without an exception.
C19_ResolvedFirst ==
    [][fetches' # fetches => ResolutionDone]_vars

====
